---- MODULE Spec2Model ----
(***************************************************************************)
(* A model of ServeController (python/ray/serve/controller.py): the write  *)
(* lock and the request handlers, the control loop, and the node           *)
(* preemption pipeline (listener thread and its two timers).               *)
(*                                                                         *)
(* Tasks of the event loop (the control loop and the request handlers) are *)
(* interleaved at the granularity of their lock sections: acquiring the    *)
(* lock, the body of the section, releasing it.  The schedules of the      *)
(* cooperative runtime are among these interleavings.  The listener thread *)
(* and the timer threads are ordinary threads: their steps interleave with *)
(* every step of every task.                                               *)
(*                                                                         *)
(* EndpointState, BackendState, HTTPState, AsyncGoalManager, LongPollHost   *)
(* and the checkpoint store are collaborators whose code is not part of    *)
(* controller.py; their operations (the es_, bs_, http_, gm_ and lp_       *)
(* definitions, and the checkpoint a mutation writes and a restart loads)  *)
(* are modelled from the interfaces the specification gives.               *)
(*                                                                         *)
(* The specifications share the variables and differ in who runs: SpecAPI  *)
(* one client; SpecRetry a client that repeats its requests; SpecCrash a   *)
(* client and a controller that restarts; SpecLock, SpecDeploy, SpecGoals  *)
(* and SpecFair two clients beside the control loop; SpecPoll long-poll    *)
(* watchers; SpecPreempt, SpecRescale and SpecListen the preemption        *)
(* pipeline beside the control loop, a client, and ill-formed messages.    *)
(***************************************************************************)
EXTENDS Integers, Sequences, FiniteSets, TLC

\* ------------------------------------------------------------- domains
BackendTags == {"b1", "b2"}
EndpointTags == {"b1", "e1"}
Clients == {"h1", "h2"}
Tasks == Clients \cup {"loop"}
Nodes == {"n1", "n2"}

Watchers == {"w1", "w2"}

\* A watcher's snapshot id is recorded by how many notifications it is behind
\* the current one, up to this many.
MaxLag == 2

\* Largest replica count a backend configuration may ask for.
MaxReplicas == 2
\* Replicas the scheduler places on one node before it uses the next one.
ReplicasPerNode == 2
\* Number of preemption warnings the listener receives in one run.
MaxWarnings == 2
\* The drain timer is started this many seconds ahead of the rollback timer.
DrainLeadS == 5

ReplicaIds == 1..(MaxReplicas + MaxWarnings)
NoCall ==
  [op |-> "none", ep |-> "-", tag |-> "-", tags |-> {}, n |-> 0, route_ok |-> TRUE,
   again |-> FALSE]
Unset == 0
NoFrame == <<>>

VARIABLES
  locked,           \* write_lock._locked
  waiters,          \* write_lock._waiters, first in first out
  pc,               \* position of every task of the event loop
  call,             \* the request a client's handler is serving
  outcome,          \* how that handler ended
  tick,             \* how the latest http / backend reconcile of the loop ended
  endpoints,        \* Routing State: the registered endpoints
  traffic,          \* Routing State: endpoint -> backends of its traffic policy
  shadows,          \* Routing State: endpoint -> backends of its shadow list
  backends,         \* Workload State: the registered backends
  num_replicas,     \* Workload State: backend -> num_replicas of its config
  target_replicas,  \* Workload State: backend_state._target_replicas
  replicas,         \* Workload State: backend -> running replicas
  lpc,              \* position of the listener thread
  ltmp,             \* the listener's _handle_warning frame
  warnings,         \* warnings handled so far, with their two timers
  now_left,         \* warnings still to arrive on the channel
  proxies,          \* HTTP Fleet State: the nodes whose proxy process runs
  checkpoint,       \* kv_store: what is stored under the checkpoint key
  held,             \* Goal Tracker: the goal each caller holds the id of
  lp_value,         \* Change-Notification Host: the value published for the key
  watch             \* Change-Notification Host: the watchers of the key

vars == <<locked, waiters, pc, call, outcome, tick, endpoints, traffic, shadows,
          backends, num_replicas, target_replicas, replicas,
          lpc, ltmp, warnings, now_left, proxies, checkpoint, held,
          lp_value, watch>>

lockVars == <<locked, waiters>>
routingVars == <<endpoints, traffic, shadows>>
workloadVars == <<backends, num_replicas, target_replicas, replicas>>
preemptVars == <<lpc, ltmp, warnings, now_left>>
ctlVars == <<proxies, checkpoint>>
pollVars == <<lp_value, watch>>

\* --------------------------------------------------------- hard state
\* The state the handlers read and write, as one value: the hard state, the
\* processes they can kill, the checkpoint, the goals and the published routing
\* table; issued is the backend of the goal the call created, if it created one.
HardState ==
  [endpoints |-> endpoints, traffic |-> traffic, shadows |-> shadows,
   backends |-> backends, num_replicas |-> num_replicas,
   target_replicas |-> target_replicas, replicas |-> replicas,
   proxies |-> proxies, checkpoint |-> checkpoint,
   held |-> held, issued |-> "-", lp_value |-> lp_value, watch |-> watch]

\* A handler body's result: the state it leaves and how it ended.
Ret(s, o) == [s |-> s, outcome |-> o]

\* ------------------------------------------------------------- checkpoint
\* Nothing is stored under the checkpoint key.
NoCheckpoint ==
  [exists |-> FALSE, endpoints |-> {}, traffic |-> [e \in EndpointTags |-> {}],
   shadows |-> [e \in EndpointTags |-> {}], backends |-> {},
   num_replicas |-> [b \in BackendTags |-> 0]]

\* The serialized Routing State and Workload State of s.
Snapshot(s) ==
  [exists |-> TRUE, endpoints |-> s.endpoints, traffic |-> s.traffic,
   shadows |-> s.shadows, backends |-> s.backends, num_replicas |-> s.num_replicas]

\* A checkpoint write that serializes Routing State only.
Checkpointed_routing_only(s) ==
  [s EXCEPT !.checkpoint = [Snapshot(s) EXCEPT !.backends = {},
                                               !.num_replicas = NoCheckpoint.num_replicas]]

\* What the state-owning components of a new controller load from the store: the
\* stored snapshot, or empty state when nothing is stored.
Recovered(cp) == IF cp.exists THEN cp ELSE NoCheckpoint

\* A state-owning component persists its checkpoint after it changed s.
Checkpointed(s) == [s EXCEPT !.checkpoint = Snapshot(s)]

\* ------------------------------------------------ Goal Tracker (AsyncGoalManager)
\* A goal is known by the callers that hold its id: the backend it was created
\* for and whether it is pending or resolved.  A goal no caller holds the id of
\* is not recorded.
NoGoal == [tag |-> "-", st |-> "none"]

\* complete_goal that resolves the goal for the first holder only.
gm_complete_goal_first(h, tags) ==
  LET hit == {u \in Clients : h[u].tag \in tags /\ h[u].st = "pending"}
  IN [u \in Clients |->
        IF hit # {} /\ u = CHOOSE v \in hit : TRUE
        THEN [h[u] EXCEPT !.st = "done"] ELSE h[u]]

\* complete_goal on the pending goals of the backends tags: they are resolved,
\* for every holder at once; a resolved goal stays as it is.
gm_complete_goal(h, tags) ==
  [u \in Clients |->
     IF h[u].tag \in tags /\ h[u].st = "pending"
     THEN [h[u] EXCEPT !.st = "done"] ELSE h[u]]

\* create_goal for backend tag by Workload State, which gives up the goal it had
\* pending for that backend.
gm_create_goal(s, tag) ==
  [s EXCEPT !.held = gm_complete_goal(@, {tag}), !.issued = tag]

\* The caller t gets the id of the goal its call created, if it created one.
gm_return_goal(s, t) ==
  IF s.issued = "-" THEN s.held
  ELSE [s.held EXCEPT ![t] = [tag |-> s.issued, st |-> "pending"]]

\* ---------------------------------------- Change-Notification Host (LongPollHost)
\* The value Routing State publishes under its key: the routing table.
RoutingValue(s) ==
  [endpoints |-> s.endpoints, traffic |-> s.traffic, shadows |-> s.shadows]

\* notify_changed that wakes the watchers before the new value is stored.
lp_notify_changed_early(s) ==
  [s EXCEPT !.lp_value = RoutingValue(s),
            !.watch = [w \in Watchers |->
               IF @[w].st = "suspended"
               THEN [st |-> "notified", val |-> s.lp_value, lag |-> 0]
               ELSE [@[w] EXCEPT !.lag = IF @ < MaxLag THEN @ + 1 ELSE @]]]

\* notify_changed(key, value): the value is stored under a new snapshot id, and
\* every suspended watcher of the key is handed that value and id; the snapshot
\* id any other watcher has falls one further behind.
lp_notify_changed(s) ==
  [s EXCEPT !.lp_value = RoutingValue(s),
            !.watch = [w \in Watchers |->
               IF @[w].st = "suspended"
               THEN [st |-> "notified", val |-> RoutingValue(s), lag |-> 0]
               ELSE [@[w] EXCEPT !.lag = IF @ < MaxLag THEN @ + 1 ELSE @]]]

\* Routing State changed s: it persists its checkpoint and publishes the table.
es_changed(s) == lp_notify_changed(Checkpointed(s))

\* ------------------------------------------------ Routing State (EndpointState)
es_get_endpoints(s) ==
  [e \in s.endpoints |-> [traffic |-> s.traffic[e], shadows |-> s.shadows[e]]]

es_create_endpoint(s, e, tags) ==
  es_changed([s EXCEPT !.endpoints = @ \cup {e}, !.traffic[e] = tags,
                         !.shadows[e] = {}])

es_update_endpoint(s, e, tags) ==
  es_changed([s EXCEPT !.endpoints = @ \cup {e}, !.traffic[e] = tags,
                         !.shadows[e] = {}])

es_set_traffic_policy(s, e, tags) ==
  IF e \notin s.endpoints
  THEN Ret(s, "ValueError")
  ELSE Ret(es_changed([s EXCEPT !.traffic[e] = tags]), "ok")

es_shadow_traffic(s, e, tag) ==
  IF e \notin s.endpoints
  THEN Ret(s, "ValueError")
  ELSE Ret(es_changed([s EXCEPT !.shadows[e] = @ \cup {tag}]), "ok")

es_delete_endpoint(s, e) ==
  IF e \notin s.endpoints
  THEN s
  ELSE es_changed([s EXCEPT !.endpoints = @ \ {e}, !.traffic[e] = {},
                              !.shadows[e] = {}])

\* ------------------------------------------------ Workload State (BackendState)
\* get_backend(tag) is not None
bs_get_backend(s, tag) == tag \in s.backends

bs_deploy_backend(s, tag, n) ==
  gm_create_goal(
    Checkpointed([s EXCEPT !.backends = @ \cup {tag}, !.num_replicas[tag] = n,
                           !.target_replicas[tag] = n]), tag)

bs_delete_backend(s, tag) ==
  IF tag \notin s.backends
  THEN s
  ELSE gm_create_goal(
         Checkpointed([s EXCEPT !.backends = @ \ {tag}, !.num_replicas[tag] = 0,
                                !.target_replicas[tag] = 0]), tag)

\* The node a replica is scheduled on: the scheduler fills the nodes in turn.
bs_node_of(h) == IF h[2] <= ReplicasPerNode THEN "n1" ELSE "n2"

bs_get_running_replica_handles(s) ==
  {h \in BackendTags \X ReplicaIds : h[2] \in s.replicas[h[1]]}

\* ------------------------------------------------ handler bodies (controller.py)
validate_traffic_dict(s, tags) == \A b \in tags : bs_get_backend(s, b)

set_traffic(s, c) ==
  IF ~validate_traffic_dict(s, c.tags)
  THEN Ret(s, "ValueError")
  ELSE es_set_traffic_policy(s, c.ep, c.tags)

shadow_traffic(s, c) ==
  IF ~bs_get_backend(s, c.tag)
  THEN Ret(s, "ValueError")
  ELSE es_shadow_traffic(s, c.ep, c.tag)

\* create_endpoint recording the endpoint first and validating afterwards.
create_endpoint_validate_after(s, c) ==
  IF ~validate_traffic_dict(s, c.tags)
  THEN Ret(es_create_endpoint(s, c.ep, c.tags), "ValueError")
  ELSE Ret(es_create_endpoint(s, c.ep, c.tags), "ok")

create_endpoint(s, c) ==
  IF ~validate_traffic_dict(s, c.tags)
  THEN Ret(s, "ValueError")
  ELSE Ret(es_create_endpoint(s, c.ep, c.tags), "ok")

delete_endpoint(s, c) == Ret(es_delete_endpoint(s, c.ep), "ok")

create_backend(s, c) == Ret(bs_deploy_backend(s, c.tag, c.n), "ok")

\* delete_backend looking at the traffic policies only, not at the shadow lists.
delete_backend_traffic_only(s, c) ==
  IF \E e \in DOMAIN es_get_endpoints(s) : c.tag \in es_get_endpoints(s)[e].traffic
  THEN Ret(s, "ValueError")
  ELSE Ret(bs_delete_backend(s, c.tag), "ok")

delete_backend(s, c) ==
  IF \E e \in DOMAIN es_get_endpoints(s) :
       \/ c.tag \in es_get_endpoints(s)[e].traffic
       \/ c.tag \in es_get_endpoints(s)[e].shadows
  THEN Ret(s, "ValueError")
  ELSE Ret(bs_delete_backend(s, c.tag), "ok")

\* update_backend_config adding the count of the partial configuration to the
\* count the backend has, instead of replacing it.
update_backend_config_accumulating(s, c) ==
  IF ~bs_get_backend(s, c.tag)
  THEN Ret(s, "ValueError")
  ELSE Ret(bs_deploy_backend(s, c.tag,
             IF c.n = Unset THEN s.num_replicas[c.tag]
             ELSE s.num_replicas[c.tag] + c.n), "ok")

update_backend_config(s, c) ==
  IF ~bs_get_backend(s, c.tag)
  THEN Ret(s, "ValueError")
  ELSE Ret(bs_deploy_backend(s, c.tag,
             IF c.n = Unset THEN s.num_replicas[c.tag] ELSE c.n), "ok")

\* shutdown kills every proxy, then every running replica, then deletes the
\* checkpoint key.
shutdown(s, c) ==
  Ret([s EXCEPT !.proxies = {}, !.replicas = [b \in BackendTags |-> {}],
                !.checkpoint = NoCheckpoint], "ok")

\* deploy recording the backend only.
deploy_without_endpoint(s, c) == Ret(bs_deploy_backend(s, c.tag, c.n), "ok")

deploy(s, c) ==
  Ret(es_update_endpoint(bs_deploy_backend(s, c.tag, c.n), c.tag, {c.tag}), "ok")

delete_deployment(s, c) ==
  Ret(bs_delete_backend(es_delete_endpoint(s, c.tag), c.tag), "ok")

\* The handlers that take the write lock around their body.
LockedOps == {"set_traffic", "shadow_traffic", "create_endpoint", "delete_endpoint",
              "create_backend", "delete_backend", "update_backend_config",
              "shutdown", "deploy"}

Body(s, c) ==
  CASE c.op = "set_traffic" -> set_traffic(s, c)
    [] c.op = "shadow_traffic" -> shadow_traffic(s, c)
    [] c.op = "create_endpoint" -> create_endpoint(s, c)
    [] c.op = "delete_endpoint" -> delete_endpoint(s, c)
    [] c.op = "create_backend" -> create_backend(s, c)
    [] c.op = "delete_backend" -> delete_backend(s, c)
    [] c.op = "update_backend_config" -> update_backend_config(s, c)
    [] c.op = "shutdown" -> shutdown(s, c)
    [] c.op = "deploy" -> deploy(s, c)
    [] c.op = "delete_deployment" -> delete_deployment(s, c)

\* The hard state becomes s.
Store(s) ==
  /\ endpoints' = s.endpoints
  /\ traffic' = s.traffic
  /\ shadows' = s.shadows
  /\ backends' = s.backends
  /\ num_replicas' = s.num_replicas
  /\ target_replicas' = s.target_replicas
  /\ replicas' = s.replicas
  /\ proxies' = s.proxies
  /\ checkpoint' = s.checkpoint
  /\ lp_value' = s.lp_value
  /\ watch' = s.watch

\* ------------------------------------------------------------ the write lock
\* An acquire() that looks at the queue only, not at who holds the lock.
LockFreeQueueOnly == waiters = <<>>

\* asyncio.Lock.acquire() takes the lock at once only when it is free and nobody
\* is queued for it.
LockFree == ~locked /\ waiters = <<>>

\* `async with self.write_lock`: task t goes on to position cs, or queues.
Acquire(t, cs) ==
  IF LockFree
  THEN /\ locked' = TRUE
       /\ waiters' = waiters
       /\ pc' = [pc EXCEPT ![t] = cs]
  ELSE /\ locked' = locked
       /\ waiters' = Append(waiters, t)
       /\ pc' = [pc EXCEPT ![t] = "waiting"]

\* Task t is inside a section guarded by the write lock.
HoldsLock(t) ==
  IF t = "loop"
  THEN pc[t] \in {"http", "backend", "release", "raise"}
  ELSE pc[t] \in {"cs", "release"}

\* release() woke the first waiter: it takes the lock.
Wake(t) ==
  /\ pc[t] = "waiting"
  /\ ~locked
  /\ waiters # <<>>
  /\ Head(waiters) = t
  /\ locked' = TRUE
  /\ waiters' = Tail(waiters)
  /\ pc' = [pc EXCEPT ![t] = IF t = "loop" THEN "http" ELSE "cs"]
  /\ UNCHANGED <<call, outcome, tick, routingVars, workloadVars, preemptVars>>
  /\ UNCHANGED ctlVars
  /\ UNCHANGED held
  /\ UNCHANGED pollVars

\* --------------------------------------------------------- request handlers
\* A client calls a handler that takes the write lock.  deploy checks its route
\* prefix first, before the lock.
Call(t, c) ==
  /\ t \in Clients
  /\ pc[t] = "idle"
  /\ c.op \in LockedOps
  /\ call' = [call EXCEPT ![t] = c]
  /\ IF c.op = "deploy" /\ ~c.route_ok
     THEN /\ pc' = [pc EXCEPT ![t] = "done"]
          /\ outcome' = [outcome EXCEPT ![t] = "AssertionError"]
          /\ UNCHANGED lockVars
     ELSE /\ Acquire(t, "cs")
          /\ UNCHANGED outcome
  /\ UNCHANGED <<tick, routingVars, workloadVars, preemptVars>>
  /\ UNCHANGED ctlVars
  /\ UNCHANGED held
  /\ UNCHANGED pollVars

\* The body of the handler's lock section: validation, then the mutation.
Exec(t) ==
  /\ t \in Clients
  /\ pc[t] = "cs"
  /\ LET r == Body(HardState, call[t])
     IN /\ Store(r.s)
        /\ held' = gm_return_goal(r.s, t)
        /\ outcome' = [outcome EXCEPT ![t] = r.outcome]
  /\ pc' = [pc EXCEPT ![t] = "release"]
  /\ UNCHANGED <<lockVars, call, tick, preemptVars>>

\* create_endpoint keeping the write lock while it waits for its route.
ReleaseAfterRouteWait(t) ==
  /\ t \in Clients
  /\ pc[t] = "release"
  /\ locked' = (call[t].op = "create_endpoint" /\ outcome[t] = "ok")
  /\ pc' = [pc EXCEPT ![t] =
              IF call[t].op = "create_endpoint" /\ outcome[t] = "ok"
              THEN "route_wait" ELSE "done"]
  /\ UNCHANGED <<waiters, call, outcome, tick, routingVars, workloadVars, preemptVars,
                 ctlVars, held, pollVars>>

\* Leaving the lock section, by its end or by the error raised in it.
\* create_endpoint then waits for its route outside the lock.
Release(t) ==
  /\ t \in Clients
  /\ pc[t] = "release"
  /\ locked' = FALSE
  /\ pc' = [pc EXCEPT ![t] =
              IF call[t].op = "create_endpoint" /\ outcome[t] = "ok"
              THEN "route_wait" ELSE "done"]
  /\ UNCHANGED <<waiters, call, outcome, tick, routingVars, workloadVars, preemptVars>>
  /\ UNCHANGED ctlVars
  /\ UNCHANGED held
  /\ UNCHANGED pollVars

\* A route wait that on expiry withdraws the endpoint the call recorded and
\* reports the failure as a validation failure.
RouteWaitRollingBack(t, o) ==
  /\ t \in Clients
  /\ pc[t] = "route_wait"
  /\ o \in {"ok", "TimeoutError"}
  /\ outcome' = [outcome EXCEPT ![t] = IF o = "ok" THEN "ok" ELSE "ValueError"]
  /\ pc' = [pc EXCEPT ![t] = "done"]
  /\ Store(IF o = "ok" THEN HardState ELSE es_delete_endpoint(HardState, call[t].ep))
  /\ UNCHANGED <<lockVars, call, tick, preemptVars, held>>

\* http_state.ensure_http_route_exists(endpoint, timeout_s=30) ends: the route is
\* there, or the wait timed out.
RouteWait(t, o) ==
  /\ t \in Clients
  /\ pc[t] = "route_wait"
  /\ o \in {"ok", "TimeoutError"}
  /\ outcome' = [outcome EXCEPT ![t] = o]
  /\ pc' = [pc EXCEPT ![t] = "done"]
  /\ UNCHANGED <<lockVars, call, tick, routingVars, workloadVars, preemptVars>>
  /\ UNCHANGED ctlVars
  /\ UNCHANGED held
  /\ UNCHANGED pollVars

\* delete_deployment is a plain method: it runs to its end in one go and takes
\* no lock.  It runs on the event loop of the tasks, so it starts only where
\* every task is suspended, and no lock section has a suspension point inside.
DeleteDeployment(t, c) ==
  /\ t \in Clients
  /\ pc[t] = "idle"
  /\ \A u \in Tasks : ~HoldsLock(u)
  /\ c.op = "delete_deployment"
  /\ call' = [call EXCEPT ![t] = c]
  /\ LET r == Body(HardState, c)
     IN /\ Store(r.s)
        /\ held' = gm_return_goal(r.s, t)
        /\ outcome' = [outcome EXCEPT ![t] = r.outcome]
  /\ pc' = [pc EXCEPT ![t] = "done"]
  /\ UNCHANGED <<lockVars, tick, preemptVars>>

\* wait_for_goal(goal_id): the Goal Tracker suspends the caller while the goal
\* is pending.
gm_wait_for_goal(g) == IF g.st = "pending" THEN "goal_wait" ELSE "done"

\* A caller that holds a goal id calls wait_for_goal on it.  The handler takes no
\* lock.
WaitForGoal(t) ==
  /\ t \in Clients
  /\ pc[t] = "idle"
  /\ held[t] # NoGoal
  /\ call' = [call EXCEPT ![t] = [NoCall EXCEPT !.op = "wait_for_goal",
                                                 !.tag = held[t].tag]]
  /\ pc' = [pc EXCEPT ![t] = gm_wait_for_goal(held[t])]
  /\ outcome' = [outcome EXCEPT ![t] =
                   IF gm_wait_for_goal(held[t]) = "done" THEN "ok" ELSE @]
  /\ UNCHANGED <<lockVars, tick, routingVars, workloadVars, preemptVars, ctlVars,
                 held>>
  /\ UNCHANGED pollVars

\* A suspended wait_for_goal resumes: its goal has been resolved.
GoalWake(t) ==
  /\ t \in Clients
  /\ pc[t] = "goal_wait"
  /\ held[t].st = "done"
  /\ pc' = [pc EXCEPT ![t] = "done"]
  /\ outcome' = [outcome EXCEPT ![t] = "ok"]
  /\ UNCHANGED <<lockVars, call, tick, routingVars, workloadVars, preemptVars,
                 ctlVars, held>>
  /\ UNCHANGED pollVars

\* The caller has its answer and keeps the goal id it holds.
ReturnKeep(t) ==
  /\ t \in Clients
  /\ pc[t] = "done"
  /\ held[t] # NoGoal
  /\ pc' = [pc EXCEPT ![t] = "idle"]
  /\ call' = [call EXCEPT ![t] = NoCall]
  /\ outcome' = [outcome EXCEPT ![t] = "none"]
  /\ UNCHANGED <<lockVars, tick, routingVars, workloadVars, preemptVars, ctlVars,
                 held>>
  /\ UNCHANGED pollVars

\* A caller passes the goal id it holds on to another caller.
ShareGoal(t, u) ==
  /\ t \in Clients
  /\ u \in Clients \ {t}
  /\ pc[t] = "idle"
  /\ held[t] = NoGoal
  /\ held[u] # NoGoal
  /\ held' = [held EXCEPT ![t] = held[u]]
  /\ UNCHANGED <<lockVars, pc, call, outcome, tick, routingVars, workloadVars,
                 preemptVars, ctlVars>>
  /\ UNCHANGED pollVars

\* listen_for_change({key: snapshot id}) by watcher w: with an id other than the
\* current one the current value and id are returned at once, with the current
\* id the call is suspended.
lp_listen_for_change(x, value) ==
  IF x.lag > 0
  THEN [st |-> "idle", val |-> value, lag |-> 0]
  ELSE [x EXCEPT !.st = "suspended"]

\* A watcher calls listen_for_change with the snapshot id it has.  The handler
\* takes no lock.
Listen(w) ==
  /\ w \in Watchers
  /\ watch[w].st = "idle"
  /\ watch' = [watch EXCEPT ![w] = lp_listen_for_change(@, lp_value)]
  /\ UNCHANGED <<lockVars, pc, call, outcome, tick, routingVars, workloadVars,
                 preemptVars, ctlVars, held, lp_value>>

\* A watcher that was notified resumes with what the notification handed it.
Resume(w) ==
  /\ w \in Watchers
  /\ watch[w].st = "notified"
  /\ watch' = [watch EXCEPT ![w].st = "idle"]
  /\ UNCHANGED <<lockVars, pc, call, outcome, tick, routingVars, workloadVars,
                 preemptVars, ctlVars, held, lp_value>>

\* The caller of a handler that took the write lock issues the identical request
\* once more, whatever answer it had.
Retry(t) ==
  /\ t \in Clients
  /\ pc[t] = "done"
  /\ call[t].op \in LockedOps
  /\ ~call[t].again
  /\ call' = [call EXCEPT ![t].again = TRUE]
  /\ IF call[t].op = "deploy" /\ ~call[t].route_ok
     THEN UNCHANGED <<lockVars, pc>>
     ELSE Acquire(t, "cs")
  /\ UNCHANGED <<outcome, tick, routingVars, workloadVars, preemptVars, ctlVars,
                 held, pollVars>>

\* The caller has its answer.
Return(t) ==
  /\ t \in Clients
  /\ pc[t] = "done"
  /\ pc' = [pc EXCEPT ![t] = "idle"]
  /\ call' = [call EXCEPT ![t] = NoCall]
  /\ outcome' = [outcome EXCEPT ![t] = "none"]
  /\ held' = [held EXCEPT ![t] = NoGoal]
  /\ UNCHANGED <<lockVars, tick, routingVars, workloadVars, preemptVars>>
  /\ UNCHANGED ctlVars
  /\ UNCHANGED pollVars

\* ------------------------------------------------------------ control loop
\* The k least elements of a set of numbers.
LowestK(S, k) == {x \in S : Cardinality({y \in S : y < x}) < k}

\* Replicas Workload State wants running for backend b.
WantedReplicas(b) ==
  IF target_replicas[b] <= 0 THEN 0
  ELSE IF target_replicas[b] > Cardinality(ReplicaIds) THEN Cardinality(ReplicaIds)
  ELSE target_replicas[b]

\* backend_state.update(): the running replicas of every backend are brought to
\* its target count, stopping the surplus or starting the missing ones.
bs_update(b) ==
  LET cur == replicas[b]
      want == WantedReplicas(b)
  IN IF Cardinality(cur) >= want
     THEN LowestK(cur, want)
     ELSE cur \cup LowestK(ReplicaIds \ cur, want - Cardinality(cur))

\* http_state.update(): a proxy runs on every serving node afterwards.
http_update == Nodes

\* http_state.update() without its try/except: the exception leaves the section.
LoopAfterHttpUncaught(o) == IF o = "failed" THEN "raise" ELSE "backend"

\* The position after http_state.update(): its exception is caught and logged.
LoopAfterHttp(o) == "backend"

\* The position after backend_state.update(): its exception is caught and logged.
LoopAfterBackend(o) == "release"

\* A tick begins: the loop asks for the write lock.
LoopStart ==
  /\ pc["loop"] = "sleep"
  /\ Acquire("loop", "http")
  /\ UNCHANGED <<call, outcome, tick, routingVars, workloadVars, preemptVars>>
  /\ UNCHANGED ctlVars
  /\ UNCHANGED held
  /\ UNCHANGED pollVars

\* http_state.update(), which may raise.
LoopHttp(o) ==
  /\ pc["loop"] = "http"
  /\ o \in {"ok", "failed"}
  /\ tick' = [http |-> o, backend |-> "none"]
  /\ pc' = [pc EXCEPT !["loop"] = LoopAfterHttp(o)]
  /\ proxies' = IF o = "ok" THEN http_update ELSE proxies
  /\ UNCHANGED <<lockVars, call, outcome, routingVars, workloadVars, preemptVars>>
  /\ UNCHANGED checkpoint
  /\ UNCHANGED held
  /\ UNCHANGED pollVars

\* backend_state.update(), which may raise; when it does not, replicas are
\* started and stopped.
LoopBackend(o) ==
  /\ pc["loop"] = "backend"
  /\ o \in {"ok", "failed"}
  /\ tick' = [tick EXCEPT !.backend = o]
  /\ pc' = [pc EXCEPT !["loop"] = LoopAfterBackend(o)]
  /\ IF o = "ok"
     THEN /\ replicas' = [b \in BackendTags |-> bs_update(b)]
          /\ held' = gm_complete_goal(held, BackendTags)
     ELSE UNCHANGED <<replicas, held>>
  /\ UNCHANGED <<lockVars, call, outcome, routingVars, backends, num_replicas,
                 target_replicas, preemptVars>>
  /\ UNCHANGED ctlVars
  /\ UNCHANGED pollVars

\* The end of the tick's lock section; an exception that escaped it ends the loop.
LoopRelease ==
  /\ pc["loop"] \in {"release", "raise"}
  /\ locked' = FALSE
  /\ pc' = [pc EXCEPT !["loop"] = IF pc["loop"] = "raise" THEN "stopped" ELSE "sleep"]
  /\ UNCHANGED <<waiters, call, outcome, tick, routingVars, workloadVars, preemptVars>>
  /\ UNCHANGED ctlVars
  /\ UNCHANGED held
  /\ UNCHANGED pollVars

\* ------------------------------------------------------------------- Init
\* Everything but Workload State, after construction.
InitRest ==
  /\ locked = FALSE
  /\ waiters = <<>>
  /\ pc = [t \in Tasks |-> IF t = "loop" THEN "sleep" ELSE "idle"]
  /\ call = [t \in Clients |-> NoCall]
  /\ outcome = [t \in Clients |-> "none"]
  /\ tick = [http |-> "none", backend |-> "none"]
  /\ endpoints = {}
  /\ traffic = [e \in EndpointTags |-> {}]
  /\ shadows = [e \in EndpointTags |-> {}]
  /\ lpc = "accept"
  /\ ltmp = NoFrame
  /\ warnings = <<>>
  /\ now_left = MaxWarnings
  /\ held = [t \in Clients |-> NoGoal]
  /\ lp_value = [endpoints |-> {}, traffic |-> [e \in EndpointTags |-> {}],
                 shadows |-> [e \in EndpointTags |-> {}]]
  /\ watch = [w \in Watchers |-> [st |-> "idle", val |-> lp_value, lag |-> MaxLag]]

\* The controller after construction: nothing is deployed.
Init ==
  /\ InitRest
  /\ backends = {}
  /\ num_replicas = [b \in BackendTags |-> 0]
  /\ target_replicas = [b \in BackendTags |-> 0]
  /\ replicas = [b \in BackendTags |-> {}]
  /\ proxies = {}
  /\ checkpoint = NoCheckpoint

\* The controller after some backends were created and a tick of the control loop
\* has started their replicas: n[b] replicas of backend b, none for a backend
\* that is not registered.
InitDeployed ==
  /\ InitRest
  /\ \E n \in [BackendTags -> 0..MaxReplicas] :
       /\ backends = {b \in BackendTags : n[b] > 0}
       /\ num_replicas = n
       /\ target_replicas = n
       /\ replicas = [b \in BackendTags |-> 1..n[b]]
       /\ checkpoint =
            IF \A b \in BackendTags : n[b] = 0 THEN NoCheckpoint
            ELSE [NoCheckpoint EXCEPT !.exists = TRUE,
                                      !.backends = {b \in BackendTags : n[b] > 0},
                                      !.num_replicas = n]
  /\ proxies = http_update

\* The controller process dies and a new one is constructed under the same name:
\* its lock, tasks, goals and long-poll host are new, its hard state is what the
\* store holds, and the detached proxies and replicas are still running.  A
\* caller whose call was in flight learns that the actor died; a caller that had
\* its answer keeps it.
Restart ==
  /\ locked' = FALSE
  /\ waiters' = <<>>
  /\ pc' = [t \in Tasks |-> IF t = "loop" THEN "sleep"
                            ELSE IF pc[t] = "idle" THEN "idle" ELSE "done"]
  /\ UNCHANGED call
  /\ outcome' = [t \in Clients |->
                  IF pc[t] \in {"idle", "done"} THEN outcome[t] ELSE "RayActorError"]
  /\ tick' = [http |-> "none", backend |-> "none"]
  /\ endpoints' = Recovered(checkpoint).endpoints
  /\ traffic' = Recovered(checkpoint).traffic
  /\ shadows' = Recovered(checkpoint).shadows
  /\ backends' = Recovered(checkpoint).backends
  /\ num_replicas' = Recovered(checkpoint).num_replicas
  /\ target_replicas' = Recovered(checkpoint).num_replicas
  /\ lpc' = "accept"
  /\ ltmp' = NoFrame
  /\ warnings' = <<>>
  /\ held' = [t \in Clients |-> NoGoal]
  /\ lp_value' = [endpoints |-> endpoints', traffic |-> traffic', shadows |-> shadows']
  /\ watch' = [w \in Watchers |->
                [st |-> "idle",
                 val |-> [endpoints |-> {}, traffic |-> [e \in EndpointTags |-> {}],
                          shadows |-> [e \in EndpointTags |-> {}]],
                 lag |-> MaxLag]]
  /\ UNCHANGED <<replicas, now_left, ctlVars>>

\* --------------------------------------------------------------- requests
Req(op, ep, tag, tags, n, route_ok) ==
  [op |-> op, ep |-> ep, tag |-> tag, tags |-> tags, n |-> n, route_ok |-> route_ok,
   again |-> FALSE]

\* Names deploy and delete_deployment are called with: a deployment is a backend
\* and the endpoint of the same name.
DeployNames == BackendTags \cap EndpointTags

\* The requests clients make, over all endpoints, backends and replica counts.
Requests ==
  {Req("set_traffic", e, "-", bs, 0, TRUE) : e \in EndpointTags, bs \in SUBSET BackendTags \ {{}}}
  \cup {Req("create_endpoint", e, "-", bs, 0, TRUE) : e \in EndpointTags, bs \in SUBSET BackendTags \ {{}}}
  \cup {Req("shadow_traffic", e, b, {}, 0, TRUE) : e \in EndpointTags, b \in BackendTags}
  \cup {Req("delete_endpoint", e, "-", {}, 0, TRUE) : e \in EndpointTags}
  \cup {Req("create_backend", "-", b, {}, n, TRUE) : b \in BackendTags, n \in 1..MaxReplicas}
  \cup {Req("update_backend_config", "-", b, {}, n, TRUE) :
          b \in BackendTags, n \in {Unset} \cup 1..MaxReplicas}
  \cup {Req("delete_backend", "-", b, {}, 0, TRUE) : b \in BackendTags}
  \cup {Req("deploy", "-", b, {}, n, ok) : b \in DeployNames, n \in 1..MaxReplicas, ok \in BOOLEAN}
  \cup {Req("delete_deployment", "-", b, {}, 0, TRUE) : b \in DeployNames}
  \cup {Req("shutdown", "-", "-", {}, 0, TRUE)}

\* The requests that name no endpoint and no backend but those of one deployment.
RequestsOf(name) ==
  {c \in Requests : c.ep \in {"-", name} /\ c.tag \in {"-", name} /\ c.tags \subseteq {name}
                     /\ c.n \in {0, 1} /\ c.route_ok}

\* One client at a time uses the routing interface.
NextAPI ==
  \/ \E c \in Requests : Call("h1", c)
  \/ Exec("h1")
  \/ Release("h1")
  \/ \E o \in {"ok", "TimeoutError"} : RouteWait("h1", o)
  \/ \E c \in Requests : DeleteDeployment("h1", c)
  \/ Return("h1")

SpecAPI == Init /\ [][NextAPI]_vars

\* ------------------------------------------------------ preemption pipeline
Handles == BackendTags \X ReplicaIds
TimeLefts == {0, 6}

\* A set as a sequence, in some fixed order.
RECURSIVE SeqOf(_)
SeqOf(S) == IF S = {} THEN <<>> ELSE LET x == CHOOSE y \in S : TRUE
                                     IN <<x>> \o SeqOf(S \ {x})

\* _actor_handle_matches_node: the node of a handle cannot be determined, the
\* answer is the flag the caller passes in.
actor_handle_matches_node(node_ip, actor_handle, mock_variable) == mock_variable

\* The two loops of _handle_warning over _all_replica_handles(), over the handles
\* hs in iteration order: target_backends (backend -> count, 0 for a backend that
\* has no entry) and target_actors.
RECURSIVE ScanHandles(_, _, _, _)
ScanHandles(hs, node_ip, mock_variable, acc) ==
  IF hs = <<>> THEN acc
  ELSE LET h == Head(hs)
       IN IF actor_handle_matches_node(node_ip, h, mock_variable)
          THEN ScanHandles(Tail(hs), node_ip, FALSE,
                 [target_backends |->
                    [acc.target_backends EXCEPT ![h[1]] = @ + 1],
                  target_actors |-> acc.target_actors \cup {h}])
          ELSE ScanHandles(Tail(hs), node_ip, mock_variable, acc)

NoTargets == [target_backends |-> [b \in BackendTags |-> 0], target_actors |-> {}]

\* The listener thread received {node_ip, time_left} and enters _handle_warning:
\* it walks the running replica handles, in the order the dictionaries give them.
Accept(node_ip, time_left) ==
  /\ lpc = "accept"
  /\ now_left > 0
  /\ now_left' = now_left - 1
  /\ LET all == bs_get_running_replica_handles(HardState)
     IN \E hs \in {SeqOf(all)} \cup {<<first>> \o SeqOf(all \ {first}) : first \in all} :
          LET found == ScanHandles(hs, node_ip, TRUE, NoTargets)
          IN ltmp' = [node_ip |-> node_ip, time_left |-> time_left,
                      target_backends |-> found.target_backends,
                      target_actors |-> found.target_actors,
                      todo |-> {b \in BackendTags : found.target_backends[b] > 0},
                      cur |-> "-", val |-> 0]
  /\ lpc' = "incr"
  /\ UNCHANGED <<lockVars, pc, call, outcome, tick, routingVars, workloadVars,
                 warnings>>
  /\ UNCHANGED ctlVars
  /\ UNCHANGED held
  /\ UNCHANGED pollVars

\* What a message that is no warning can be: not JSON (json.loads raises), an
\* object without node_ip or without time_left (the subscript raises), or a
\* time_left that float() rejects.
Malformed == {"not_json", "no_node_ip", "no_time_left", "time_left_not_a_number"}

\* The listener thread received a message that is no warning: the exception
\* leaves the `while True` of _listen and the thread ends.
AcceptMalformed(kind) ==
  /\ kind \in Malformed
  /\ lpc = "accept"
  /\ now_left > 0
  /\ now_left' = now_left - 1
  /\ lpc' = "dead"
  /\ UNCHANGED <<lockVars, pc, call, outcome, tick, routingVars, workloadVars,
                 ltmp, warnings, ctlVars, held, pollVars>>

\* _target_replicas[target_backend] += num_replicas, first half: the value is read.
IncrRead(b) ==
  /\ lpc = "incr"
  /\ b \in ltmp.todo
  /\ ltmp' = [ltmp EXCEPT !.cur = b, !.val = target_replicas[b]]
  /\ lpc' = "incr_write"
  /\ UNCHANGED <<lockVars, pc, call, outcome, tick, routingVars, workloadVars,
                 warnings, now_left>>
  /\ UNCHANGED ctlVars
  /\ UNCHANGED held
  /\ UNCHANGED pollVars

\* ... second half: the sum is stored.
IncrWrite ==
  /\ lpc = "incr_write"
  /\ target_replicas' =
       [target_replicas EXCEPT ![ltmp.cur] = ltmp.val + ltmp.target_backends[ltmp.cur]]
  /\ ltmp' = [ltmp EXCEPT !.todo = @ \ {ltmp.cur}, !.cur = "-", !.val = 0]
  /\ lpc' = "incr"
  /\ UNCHANGED <<lockVars, pc, call, outcome, tick, routingVars, backends,
                 num_replicas, replicas, warnings, now_left>>
  /\ UNCHANGED ctlVars
  /\ UNCHANGED held
  /\ UNCHANGED pollVars

\* Both timers are started: the drain at time_left - 5, the rollback at time_left.
StartTimers ==
  /\ lpc = "incr"
  /\ ltmp.todo = {}
  /\ warnings' = Append(warnings,
       [target_backends |-> ltmp.target_backends,
        target_actors |-> ltmp.target_actors,
        drain_due |-> ltmp.time_left - DrainLeadS,
        rescale_due |-> ltmp.time_left,
        dpc |-> "armed", rpc |-> "armed",
        todo |-> {b \in BackendTags : ltmp.target_backends[b] > 0},
        cur |-> "-", val |-> 0,
        sent |-> [h \in Handles |-> 0]])
  /\ ltmp' = NoFrame
  /\ lpc' = "accept"
  /\ UNCHANGED <<lockVars, pc, call, outcome, tick, routingVars, workloadVars,
                 now_left>>
  /\ UNCHANGED ctlVars
  /\ UNCHANGED held
  /\ UNCHANGED pollVars

\* _graceful_shutdown_before_shutoff, on its timer's thread: the drain signal goes
\* to every handle of target_actors.
DrainFire(w) ==
  /\ w \in DOMAIN warnings
  /\ warnings[w].dpc = "armed"
  /\ warnings[w].drain_due <= 0
  /\ warnings' = [warnings EXCEPT ![w].dpc = "done", ![w].drain_due = 0,
                    ![w].sent = [h \in Handles |->
                                   IF h \in warnings[w].target_actors
                                   THEN @[h] + 1 ELSE @[h]]]
  /\ UNCHANGED <<lockVars, pc, call, outcome, tick, routingVars, workloadVars,
                 lpc, ltmp, now_left>>
  /\ UNCHANGED ctlVars
  /\ UNCHANGED held
  /\ UNCHANGED pollVars

\* _rescale_after_warning_expires, on its timer's thread:
\* _target_replicas[target_backend] -= num_replicas, first half.
RescaleRead(w, b) ==
  /\ w \in DOMAIN warnings
  /\ \/ warnings[w].rpc = "armed" /\ warnings[w].rescale_due <= 0
     \/ warnings[w].rpc = "loop"
  /\ b \in warnings[w].todo
  /\ warnings' = [warnings EXCEPT ![w].rpc = "write", ![w].rescale_due = 0,
                    ![w].cur = b, ![w].val = target_replicas[b]]
  /\ UNCHANGED <<lockVars, pc, call, outcome, tick, routingVars, workloadVars,
                 lpc, ltmp, now_left>>
  /\ UNCHANGED ctlVars
  /\ UNCHANGED held
  /\ UNCHANGED pollVars

\* ... second half: the difference is stored.
RescaleWrite(w) ==
  /\ w \in DOMAIN warnings
  /\ warnings[w].rpc = "write"
  /\ target_replicas' =
       [target_replicas EXCEPT ![warnings[w].cur] =
          warnings[w].val - warnings[w].target_backends[warnings[w].cur]]
  /\ warnings' = [warnings EXCEPT ![w].rpc = "loop", ![w].todo = @ \ {warnings[w].cur},
                    ![w].cur = "-", ![w].val = 0]
  /\ UNCHANGED <<lockVars, pc, call, outcome, tick, routingVars, backends,
                 num_replicas, replicas, lpc, ltmp, now_left>>
  /\ UNCHANGED ctlVars
  /\ UNCHANGED held
  /\ UNCHANGED pollVars

\* The rollback's loop is over (at once, for a warning that found no replica).
RescaleEnd(w) ==
  /\ w \in DOMAIN warnings
  /\ \/ warnings[w].rpc = "armed" /\ warnings[w].rescale_due <= 0
     \/ warnings[w].rpc = "loop"
  /\ warnings[w].todo = {}
  /\ warnings' = [warnings EXCEPT ![w].rpc = "done", ![w].rescale_due = 0]
  /\ UNCHANGED <<lockVars, pc, call, outcome, tick, routingVars, workloadVars,
                 lpc, ltmp, now_left>>
  /\ UNCHANGED ctlVars
  /\ UNCHANGED held
  /\ UNCHANGED pollVars

\* A timer that has come due and has not run yet.
Overdue(w) ==
  \/ warnings[w].dpc = "armed" /\ warnings[w].drain_due <= 0
  \/ warnings[w].rpc = "armed" /\ warnings[w].rescale_due <= 0

\* A second passes.  The timers are wall-clock deadlines: one that is due runs
\* before the clock moves on.
TimePasses ==
  /\ \E w \in DOMAIN warnings : "armed" \in {warnings[w].dpc, warnings[w].rpc}
  /\ \A w \in DOMAIN warnings : ~Overdue(w)
  /\ warnings' = [w \in DOMAIN warnings |->
       [warnings[w] EXCEPT
          !.drain_due = IF warnings[w].dpc = "armed" THEN @ - 1 ELSE @,
          !.rescale_due = IF warnings[w].rpc = "armed" THEN @ - 1 ELSE @]]
  /\ UNCHANGED <<lockVars, pc, call, outcome, tick, routingVars, workloadVars,
                 lpc, ltmp, now_left>>
  /\ UNCHANGED ctlVars
  /\ UNCHANGED held
  /\ UNCHANGED pollVars

\* --------------------------------------------------------- specifications
\* The control loop.  Where it is the only task that takes the write lock it
\* never queues for it; beside clients, Wake covers it too.
NextLoop ==
  \/ LoopStart
  \/ \E o \in {"ok", "failed"} : LoopHttp(o)
  \/ \E o \in {"ok", "failed"} : LoopBackend(o)
  \/ LoopRelease

NextPipeline ==
  \/ \E node_ip \in Nodes, time_left \in TimeLefts : Accept(node_ip, time_left)
  \/ \E b \in BackendTags : IncrRead(b)
  \/ IncrWrite
  \/ StartTimers
  \/ \E w \in 1..MaxWarnings : DrainFire(w)
  \/ \E w \in 1..MaxWarnings, b \in BackendTags : RescaleRead(w, b)
  \/ \E w \in 1..MaxWarnings : RescaleWrite(w)
  \/ \E w \in 1..MaxWarnings : RescaleEnd(w)
  \/ TimePasses

\* The preemption pipeline beside the control loop.
NextPreempt ==
  \/ NextLoop
  \/ NextPipeline

SpecPreempt == InitDeployed /\ [][NextPreempt]_vars

\* Two clients of one deployment beside the control loop.
NextLock ==
  \/ \E t \in Clients, c \in RequestsOf("b1") : Call(t, c)
  \/ \E t \in Tasks : Wake(t)
  \/ \E t \in Clients : Exec(t)
  \/ \E t \in Clients : Release(t)
  \/ \E t \in Clients, o \in {"ok", "TimeoutError"} : RouteWait(t, o)
  \/ \E t \in Clients, c \in RequestsOf("b1") : DeleteDeployment(t, c)
  \/ \E t \in Clients : Return(t)
  \/ NextLoop

SpecLock == Init /\ [][NextLock]_vars

\* The requests that return a goal id, for one backend.
GoalRequests ==
  {c \in RequestsOf("b1") :
     c.op \in {"create_backend", "update_backend_config", "delete_backend", "deploy"}}

\* Callers that wait for the goals of their requests, beside the control loop.
NextGoals ==
  \/ \E t \in Clients, c \in GoalRequests : Call(t, c)
  \/ \E t \in Tasks : Wake(t)
  \/ \E t \in Clients : Exec(t)
  \/ \E t \in Clients : Release(t)
  \/ \E t \in Clients : Return(t)
  \/ \E t \in Clients : ReturnKeep(t)
  \/ \E t, u \in Clients : ShareGoal(t, u)
  \/ \E t \in Clients : WaitForGoal(t)
  \/ \E t \in Clients : GoalWake(t)
  \/ NextLoop

SpecGoals == Init /\ [][NextGoals]_vars

\* The requests that change the routing table of one deployment.
PollRequests ==
  {c \in RequestsOf("b1") :
     c.op \in {"deploy", "create_endpoint", "set_traffic", "shadow_traffic",
               "delete_endpoint"}}

\* Watchers of the routing table beside one client that changes it.
NextPoll ==
  \/ \E c \in PollRequests : Call("h1", c)
  \/ Exec("h1")
  \/ Release("h1")
  \/ \E o \in {"ok", "TimeoutError"} : RouteWait("h1", o)
  \/ \E c \in RequestsOf("b1") : DeleteDeployment("h1", c)
  \/ Return("h1")
  \/ \E w \in Watchers : Listen(w)
  \/ \E w \in Watchers : Resume(w)

SpecPoll == Init /\ [][NextPoll]_vars

\* The requests that deploy one deployment, well or badly routed, and take it or
\* its parts away.
DeployRequests ==
  {c \in Requests :
     /\ c.op \in {"deploy", "delete_deployment", "delete_endpoint", "delete_backend"}
     /\ c.ep \in {"-", "b1"} /\ c.tag \in {"-", "b1"} /\ c.n \in {0, 1}}

\* Two clients deploying and deleting beside the control loop.
NextDeploy ==
  \/ \E t \in Clients, c \in DeployRequests : Call(t, c)
  \/ \E t \in Tasks : Wake(t)
  \/ \E t \in Clients : Exec(t)
  \/ \E t \in Clients : Release(t)
  \/ \E t \in Clients, c \in DeployRequests : DeleteDeployment(t, c)
  \/ \E t \in Clients : Return(t)
  \/ NextLoop

SpecDeploy == Init /\ [][NextDeploy]_vars

\* The preemption pipeline on a channel that also carries messages that are no
\* warnings.
NextListen ==
  \/ NextPipeline
  \/ \E kind \in Malformed : AcceptMalformed(kind)

SpecListen == InitDeployed /\ [][NextListen]_vars

\* The requests that set the replica count of one backend or delete it.
RescaleRequests ==
  {c \in Requests : c.op \in {"deploy", "update_backend_config", "delete_backend"}
                      /\ c.tag = "b1" /\ c.route_ok}

\* One client changing replica counts beside the preemption pipeline.
NextRescale ==
  \/ \E c \in RescaleRequests : Call("h1", c)
  \/ Exec("h1")
  \/ Release("h1")
  \/ Return("h1")
  \/ NextPipeline

\* The controller after that backend alone was created and its replicas started.
InitRescale == InitDeployed /\ backends = {"b1"}

SpecRescale == InitRescale /\ [][NextRescale]_vars

\* The requests of two clients that create one backend and one endpoint.
FairRequests ==
  {c \in RequestsOf("b1") : c.op \in {"create_backend", "create_endpoint"}}

\* Two clients beside the control loop.
NextFair ==
  \/ \E t \in Clients, c \in FairRequests : Call(t, c)
  \/ \E t \in Tasks : Wake(t)
  \/ \E t \in Clients : Exec(t)
  \/ \E t \in Clients : Release(t)
  \/ \E t \in Clients, o \in {"ok", "TimeoutError"} : RouteWait(t, o)
  \/ \E t \in Clients : Return(t)
  \/ NextLoop

\* The event loop runs every task that can run: a task woken for the lock takes
\* it, a lock section runs to its end, the sleep of the control loop ends.  No
\* client has to call or to take its answer, and no route wait has to end.
Fairness ==
  /\ \A t \in Tasks : WF_vars(Wake(t))
  /\ \A t \in Clients : WF_vars(Exec(t)) /\ WF_vars(Release(t))
  /\ WF_vars(NextLoop)

SpecFair == Init /\ [][NextFair]_vars /\ Fairness

\* One client, and a controller that may crash and restart at any point.
NextCrash ==
  \/ NextAPI
  \/ Restart

SpecCrash == Init /\ [][NextCrash]_vars

\* One client that may issue each of its requests a second time.
NextRetry ==
  \/ NextAPI
  \/ Retry("h1")

SpecRetry == Init /\ [][NextRetry]_vars

\* The whole controller: every client with every request, the control loop and
\* the preemption pipeline.  SpecAPI, SpecLock and SpecPreempt are the parts of
\* it that are checked.
Next ==
  \/ \E t \in Clients, c \in Requests : Call(t, c)
  \/ \E t \in Tasks : Wake(t)
  \/ \E t \in Clients : Exec(t)
  \/ \E t \in Clients : Release(t)
  \/ \E t \in Clients, o \in {"ok", "TimeoutError"} : RouteWait(t, o)
  \/ \E t \in Clients, c \in Requests : DeleteDeployment(t, c)
  \/ \E t \in Clients : Return(t)
  \/ \E t \in Clients : Retry(t)
  \/ Restart
  \/ \E kind \in Malformed : AcceptMalformed(kind)
  \/ \E t \in Clients : ReturnKeep(t)
  \/ \E t, u \in Clients : ShareGoal(t, u)
  \/ \E t \in Clients : WaitForGoal(t)
  \/ \E t \in Clients : GoalWake(t)
  \/ \E w \in Watchers : Listen(w)
  \/ \E w \in Watchers : Resume(w)
  \/ NextLoop
  \/ NextPipeline

Spec == Init /\ [][Next]_vars

\* -------------------------------------------------------------- properties
\* Some endpoint's traffic policy or shadow list names backend tag.
Referenced(tag) == \E e \in endpoints : tag \in traffic[e] \/ tag \in shadows[e]

\* An endpoint other than the deployment's own names backend name.
ReferencedByOther(name) ==
  \E e \in endpoints \ {name} : name \in traffic[e] \/ name \in shadows[e]

\* The backends a routing request names.
NamedBackends(c) == IF c.op = "shadow_traffic" THEN {c.tag} ELSE c.tags

\* C1: a delete_backend(tag) served while some endpoint's traffic policy or shadow
\* list contains tag ends with the validation error and leaves the backends, the
\* endpoints, the traffic policies, the shadow lists and the replica targets as
\* they were.
C1_DeleteReferencedBackendFails ==
  [][\A t \in Clients :
       (/\ pc[t] = "cs"
        /\ pc'[t] # "cs"
        /\ call[t].op = "delete_backend"
        /\ Referenced(call[t].tag))
       => /\ outcome'[t] = "ValueError"
          /\ UNCHANGED <<routingVars, workloadVars>>]_vars

\* C1 witness: a delete_backend of a registered backend that only a shadow list
\* names has ended with the validation error.
C1_Witness ==
  \E t \in Clients :
    /\ pc[t] = "done"
    /\ call[t].op = "delete_backend"
    /\ outcome[t] = "ValueError"
    /\ call[t].tag \in backends
    /\ \E e \in endpoints : call[t].tag \in shadows[e]
    /\ \A e \in endpoints : call[t].tag \notin traffic[e]

\* C2: a delete_deployment(name) made while an endpoint other than name still
\* names backend name in its traffic policy or shadow list ends with the
\* validation error and removes neither the backend nor any endpoint.
C2_DeleteDeploymentChecksReferences ==
  [][\A t \in Clients :
       (/\ pc[t] = "idle"
        /\ pc'[t] = "done"
        /\ call'[t].op = "delete_deployment"
        /\ ReferencedByOther(call'[t].tag))
       => /\ outcome'[t] = "ValueError"
          /\ backends' = backends
          /\ endpoints' = endpoints]_vars

C4_MutualExclusion ==
  /\ Cardinality({t \in Tasks : HoldsLock(t)}) <= 1
  /\ locked = (\E t \in Tasks : HoldsLock(t))

\* C4 witness: a tick is reconciling while one client waits for the lock and the
\* other has been through its own lock section.
C4_Witness ==
  /\ pc["loop"] = "backend"
  /\ \E t, u \in Clients : pc[t] = "waiting" /\ pc[u] = "done" /\ outcome[u] = "ok"

\* C5: every step of a public handler that changes Routing State or Workload State
\* is taken by a task that holds the write lock.
C5_MutationOnlyUnderLock ==
  [][\A t \in Clients :
       (pc'[t] # pc[t] /\ <<routingVars, workloadVars>>' # <<routingVars, workloadVars>>)
       => (locked /\ HoldsLock(t))]_vars

\* C7: in a tick the reconcile of HTTP Fleet State and then the reconcile of
\* Workload State are both called under the write lock whether or not either
\* fails; the tick then frees the lock and the loop goes back to sleep, from
\* where the next tick starts: it never ends.
C7_TickIsolatesFailures ==
  [][/\ (pc["loop"] \in {"sleep", "waiting"} /\ pc'["loop"] \notin {"sleep", "waiting"})
        => pc'["loop"] = "http" /\ locked'
     /\ (pc["loop"] = "http" /\ pc'["loop"] # "http")
        => /\ pc'["loop"] = "backend"
           /\ locked /\ locked'
           /\ tick'.http \in {"ok", "failed"}
           /\ tick'.backend = "none"
     /\ (pc["loop"] = "backend" /\ pc'["loop"] # "backend")
        => /\ pc'["loop"] = "release"
           /\ locked /\ locked'
           /\ tick'.http = tick.http
           /\ tick'.backend \in {"ok", "failed"}
     /\ (pc["loop"] = "release" /\ pc'["loop"] # "release")
        => pc'["loop"] = "sleep" /\ ~locked'
     /\ pc'["loop"] \notin {"raise", "stopped"}]_vars

\* C7 witness: a tick is under way after a tick in which the HTTP reconcile failed
\* and the Workload reconcile was still called, and ended well.
C7_Witness ==
  /\ pc["loop"] = "http"
  /\ locked
  /\ tick.http = "failed"
  /\ tick.backend = "ok"

\* Running replicas of backend b that are scheduled on node.
OnNode(b, node) == Cardinality({r \in replicas[b] : bs_node_of(<<b, r>>) = node})

\* C6: a step of the listener thread or of a timer thread that changes a target
\* replica count is never taken while a control-loop tick or a request handler
\* holds the write lock.
C6_TargetWritesExcludedByLock ==
  [][(target_replicas' # target_replicas /\ preemptVars' # preemptVars)
       => ~locked]_vars

\* C8: on receipt of a warning for a node, the amount the listener is about to add
\* to the target of each backend is the number of that backend's running replicas
\* scheduled on the node (none for a backend with no replica there), and the
\* addition puts the target that much above its current value.
C8_IncrementIsReplicasOnNode ==
  [][/\ (lpc = "accept" /\ lpc' # "accept")
        => \A b \in BackendTags :
             ltmp'.target_backends[b] = OnNode(b, ltmp'.node_ip)
     /\ (lpc = "incr_write" /\ lpc' # "incr_write")
        => target_replicas'[ltmp.cur] =
             target_replicas[ltmp.cur] + OnNode(ltmp.cur, ltmp.node_ip)]_vars

\* C9: once every warning received has been handled and its rollback has run, and
\* nothing else has written the targets, every backend's target replica count is
\* what it was before the first warning (the count of its configuration).
C9_RollbackRestoresTargets ==
  (/\ lpc = "accept"
   /\ warnings # <<>>
   /\ \A w \in DOMAIN warnings : warnings[w].rpc = "done")
  => target_replicas = num_replicas

\* C10: for every warning, the replicas the drain signal goes to are those counted
\* for the increment; none has the signal before the drain timer runs and each of
\* them, and no other, has it exactly once afterwards; and the rollback of the
\* warning does not start before its drain signal is sent.
C10_DrainOnceBeforeRollback ==
  \A w \in DOMAIN warnings :
    /\ \A b \in BackendTags :
         Cardinality({h \in warnings[w].target_actors : h[1] = b})
           = warnings[w].target_backends[b]
    /\ warnings[w].dpc = "armed" =>
         /\ \A h \in Handles : warnings[w].sent[h] = 0
         /\ warnings[w].target_actors # {} => warnings[w].rpc = "armed"
    /\ warnings[w].dpc = "done" =>
         \A h \in Handles :
           warnings[w].sent[h] = IF h \in warnings[w].target_actors THEN 1 ELSE 0

\* C11: once a shutdown() call has returned, no proxy process and no replica
\* process runs, whatever control-loop ticks and other handlers have run since it
\* killed them, and nothing is stored under the checkpoint key.
C11_ShutdownIsIrreversible ==
  \A t \in Clients :
    (pc[t] = "done" /\ call[t].op = "shutdown" /\ outcome[t] = "ok")
    => /\ proxies = {}
       /\ \A b \in BackendTags : replicas[b] = {}
       /\ ~checkpoint.exists

CurrentRouting ==
  [endpoints |-> endpoints, traffic |-> traffic, shadows |-> shadows]

\* C13: the value published for the routing key is always the routing table as
\* it is; a watcher whose snapshot id is the current one has the current value.
\* A listen_for_change with another id than the current one returns the current
\* value and id at once, one with the current id suspends; a suspended watcher is
\* touched only by a notification, which hands it exactly the value that
\* notification published with its new id, and every change of the routing table
\* notifies; what a notified watcher was handed is not changed before it resumes.
C13_WatcherGetsPublishedValue ==
  /\ [](lp_value = CurrentRouting)
  /\ [](\A w \in Watchers :
          (watch[w].lag = 0 /\ watch[w].st # "notified") => watch[w].val = lp_value)
  /\ [][\A w \in Watchers :
          /\ (watch[w].st = "idle" /\ watch'[w] # watch[w] /\ pc' = pc)
             => IF watch[w].lag > 0
                THEN watch'[w] = [st |-> "idle", val |-> lp_value, lag |-> 0]
                ELSE watch'[w] = [watch[w] EXCEPT !.st = "suspended"]
          /\ (watch[w].st = "suspended" /\ watch'[w] # watch[w])
             => /\ watch'[w] = [st |-> "notified", val |-> CurrentRouting', lag |-> 0]
                /\ \E t \in Clients : pc'[t] # pc[t]
          /\ (watch[w].st = "suspended" /\ CurrentRouting' # CurrentRouting)
             => watch'[w].st = "notified"
          /\ watch[w].st = "notified"
             => /\ watch'[w].val = watch[w].val
                /\ watch'[w].st \in {"notified", "idle"}]_vars

\* C13 witness: one watcher has been handed a routing table with an endpoint in
\* it by a notification and has not resumed yet, while another, which listened
\* afterwards, has the current table and snapshot id.
C13_Witness ==
  \E w, v \in Watchers :
    /\ w # v
    /\ watch[w].st = "notified"
    /\ watch[w].val.endpoints # {}
    /\ watch[v].st = "idle"
    /\ watch[v].lag = 0
    /\ watch[v].val = lp_value

\* C14: when a client issues the request it has just made a second time, the
\* second run of the handler leaves the backends, the endpoints, the traffic
\* policies, the shadow lists, the configured replica counts and the target
\* replica counts exactly as the first run left them, and ends as the first did
\* unless the first ended in the route wait.
C14_RetryChangesNothing ==
  [][\A t \in Clients :
       (pc[t] = "cs" /\ pc'[t] # "cs" /\ call[t].again)
       => /\ UNCHANGED <<endpoints, traffic, shadows>>
          /\ UNCHANGED <<backends, num_replicas, target_replicas>>
          /\ outcome[t] # "TimeoutError" => outcome'[t] = outcome[t]]_vars

\* C14 witness: a set_traffic that succeeded was issued again and has succeeded
\* again, and the endpoint carries the policy of the request.
C14_Witness ==
  \E t \in Clients :
    /\ pc[t] = "done"
    /\ call[t].again
    /\ call[t].op = "set_traffic"
    /\ outcome[t] = "ok"
    /\ traffic[call[t].ep] = call[t].tags

\* The hard state a restart is to reproduce.
Recoverable == <<backends, endpoints, traffic, shadows, num_replicas>>

C16_RouteTimeoutKeepsEndpoint ==
  /\ [](\A t \in Clients :
          pc[t] = "route_wait"
          => /\ call[t].op = "create_endpoint"
             /\ locked => \E u \in Tasks \ {t} : HoldsLock(u))
  /\ [][\A t \in Clients :
          /\ (pc[t] # "route_wait" /\ pc'[t] = "route_wait")
             => (~locked' /\ call[t].ep \in endpoints'
                 /\ traffic'[call[t].ep] = call[t].tags)
          /\ (pc[t] = "route_wait" /\ pc'[t] # "route_wait")
             => /\ UNCHANGED <<routingVars, workloadVars>>
                /\ UNCHANGED lockVars
                /\ pc'[t] = "done"
                /\ outcome'[t] \in {"ok", "TimeoutError"}]_vars

\* C16 witness: a create_endpoint call ended with the timeout of its route wait,
\* its endpoint carries the policy of the call, and another task is inside its
\* lock section.
C16_Witness ==
  \E t \in Clients :
    /\ pc[t] = "done"
    /\ call[t].op = "create_endpoint"
    /\ outcome[t] = "TimeoutError"
    /\ call[t].ep \in endpoints
    /\ traffic[call[t].ep] = call[t].tags
    /\ \E u \in Tasks \ {t} : HoldsLock(u)

\* C17: the write lock is taken only while some task is inside its lock section,
\* never while its taker waits for a route; a tick of the control loop that
\* waits for the lock gets it; and the control loop reconciles backends again
\* and again.
C17_LoopIsNotStarved ==
  /\ [](locked => \E u \in Tasks : HoldsLock(u))
  /\ (pc["loop"] = "waiting") ~> (pc["loop"] = "http")
  /\ []<>(pc["loop"] = "backend")

\* C17 witness: the control loop holds the lock for its tick while one handler
\* is stalled in its route wait and the other queues for the lock.
C17_Witness ==
  /\ pc["loop"] = "http"
  /\ \E t, u \in Clients : pc[t] = "route_wait" /\ pc[u] = "waiting"

\* The deployment of call c is complete: its backend is registered with the
\* count of the call and its endpoint sends all traffic to it.
Deployed(c) ==
  /\ c.tag \in backends
  /\ num_replicas[c.tag] = c.n
  /\ c.tag \in endpoints
  /\ traffic[c.tag] = {c.tag}

\* C18: from the step in which deploy changes the state until it leaves its lock
\* section the deployment is complete, no other task is inside a lock section
\* and no other step changes the hard state; the deployment is complete when
\* deploy returns; a deploy whose route_prefix does not start with "/" ends with
\* AssertionError in its first step, without touching the lock or the state,
\* and never asks for the lock.
C18_DeployIsOneSection ==
  /\ [](\A t \in Clients :
          call[t].op = "deploy"
          => /\ pc[t] = "release"
                => (Deployed(call[t]) /\ \A u \in Tasks \ {t} : ~HoldsLock(u))
             /\ ~call[t].route_ok
                => (pc[t] = "done" /\ outcome[t] = "AssertionError"))
  /\ [][\A t \in Clients :
          /\ (call[t].op = "deploy" /\ pc[t] = "release" /\ pc'[t] = "release")
             => UNCHANGED <<routingVars, workloadVars>>
          /\ (call[t].op = "deploy" /\ pc[t] = "release" /\ pc'[t] # "release")
             => (pc'[t] = "done" /\ outcome'[t] = "ok" /\ Deployed(call[t])')
          /\ (pc[t] = "idle" /\ call'[t].op = "deploy" /\ ~call'[t].route_ok)
             => UNCHANGED <<lockVars, routingVars, workloadVars, ctlVars>>]_vars

\* C18 witness: a deploy has returned, its deployment is complete, and another
\* handler is now inside its lock section.
C18_Witness ==
  \E t \in Clients :
    /\ pc[t] = "done"
    /\ call[t].op = "deploy"
    /\ outcome[t] = "ok"
    /\ Deployed(call[t])
    /\ \E u \in Clients \ {t} : pc[u] = "cs"

\* C18 witness for the failing route_prefix: the deploy has failed while the
\* other client is inside its lock section.
C18_WitnessBadRoute ==
  \E t \in Clients :
    /\ pc[t] = "done"
    /\ call[t].op = "deploy"
    /\ outcome[t] = "AssertionError"
    /\ \E u \in Clients \ {t} : pc[u] = "cs"

\* No warning is being handled and every rollback has run.
NoWarningOutstanding ==
  /\ lpc = "accept"
  /\ \A w \in DOMAIN warnings : warnings[w].rpc = "done"

\* C19: the target replica count of every backend is at least 0, and when no
\* preemption warning is outstanding it is the replica count of the most recent
\* deploy or update of the backend (0 for a backend that is not registered).
C19_TargetFollowsRequest ==
  \A b \in BackendTags :
    /\ target_replicas[b] >= 0
    /\ NoWarningOutstanding => target_replicas[b] = num_replicas[b]

\* C20: as long as messages are still to come on the channel the listener
\* thread is alive, whatever it has received, so a warning that comes is taken
\* up.
C20_ListenerKeepsServing == now_left > 0 => lpc # "dead"

====
